---- MODULE Spec2Model ----
(***************************************************************************)
(* merge_available_points.py: join the names of Available.csv with the    *)
(* point values of AllValues.csv.                                         *)
(*                                                                         *)
(* A Python str is a sequence of one-character strings; None is a value   *)
(* that is no str.  A row (a dict) is a function from column names to     *)
(* cell values.                                                           *)
(***************************************************************************)
EXTENDS Integers, Sequences, FiniteSets, TLC

VARIABLES
  pc,                     \* position of main(), or of the function under call
  all_fields, all_rows,               \* load_csv(ALL_VALUES_PATH)
  available_fields, available_rows,   \* load_csv(AVAILABLE_PATH)
  all_name_column, available_name_column, points_column,
  points_by_name, duplicate_names,
  missing_names, output_rows,
  unique_duplicates, unique_missing,
  idx,                    \* number of all_rows the index loop has consumed
  io,                     \* the I/O events of the run so far, in order
  error,                  \* the exception that ended the run
  arg, ret                \* argument and result of a function called on its own

vars == <<pc, all_fields, all_rows, available_fields, available_rows,
          all_name_column, available_name_column, points_column,
          points_by_name, duplicate_names, missing_names, output_rows,
          unique_duplicates, unique_missing, idx, io, error, arg, ret>>

mainVars == <<all_fields, all_rows, available_fields, available_rows,
              all_name_column, available_name_column, points_column,
              points_by_name, duplicate_names, missing_names, output_rows,
              unique_duplicates, unique_missing, idx, io, error>>

-----------------------------------------------------------------------------
(* Python values *)

None == <<"None">>
IsStr(v) == v # None
Truthy(v) == v # None /\ v # <<>>

Whitespace == {" ", "\t"}

RECURSIVE LStrip(_)
LStrip(s) ==
  IF s # <<>> /\ Head(s) \in Whitespace THEN LStrip(Tail(s)) ELSE s

RECURSIVE RStrip(_)
RStrip(s) ==
  IF s # <<>> /\ s[Len(s)] \in Whitespace
    THEN RStrip(SubSeq(s, 1, Len(s) - 1))
    ELSE s

Strip(s) == RStrip(LStrip(s))

UpperCase == <<"A","B","C","D","E","F","G","H","I","J","K","L","M",
               "N","O","P","Q","R","S","T","U","V","W","X","Y","Z">>
LowerCase == <<"a","b","c","d","e","f","g","h","i","j","k","l","m",
               "n","o","p","q","r","s","t","u","v","w","x","y","z">>

LowerChar(c) ==
  IF \E k \in DOMAIN UpperCase : UpperCase[k] = c
    THEN LowerCase[CHOOSE k \in DOMAIN UpperCase : UpperCase[k] = c]
    ELSE c

Lower(s) == [k \in DOMAIN s |-> LowerChar(s[k])]

Contains(s, sub) ==
  \E k \in 1..(Len(s) - Len(sub) + 1) : SubSeq(s, k, k + Len(sub) - 1) = sub

\* dict.get(key, default)
Get(row, key, default) == IF key \in DOMAIN row THEN row[key] ELSE default

\* next((x for x in seq if x == target), None)
RECURSIVE FirstEqual(_, _)
FirstEqual(seq, target) ==
  IF seq = <<>> THEN None
  ELSE IF Head(seq) = target THEN Head(seq)
  ELSE FirstEqual(Tail(seq), target)

-----------------------------------------------------------------------------
(* float(value): the grammar of Python's float() on a stripped str *)

Digits == {"0","1","2","3","4","5","6","7","8","9"}
Signs == {"+", "-"}
FloatWords == { <<"i","n","f">>, <<"n","a","n">>,
                <<"i","n","f","i","n","i","t","y">> }

FloatStep(q, c) ==
  CASE q = "start" /\ c \in Signs   -> "sign"
    [] q \in {"start", "sign"} /\ c \in Digits -> "int"
    [] q \in {"start", "sign"} /\ c = "."      -> "dot"
    [] q = "int" /\ c \in Digits    -> "int"
    [] q = "int" /\ c = "_"         -> "int_"
    [] q = "int_" /\ c \in Digits   -> "int"
    [] q = "int" /\ c = "."         -> "intdot"
    [] q \in {"dot", "intdot", "frac"} /\ c \in Digits -> "frac"
    [] q = "frac" /\ c = "_"        -> "frac_"
    [] q = "frac_" /\ c \in Digits  -> "frac"
    [] q \in {"int", "intdot", "frac"} /\ c \in {"e", "E"} -> "e"
    [] q = "e" /\ c \in Signs       -> "esign"
    [] q \in {"e", "esign", "exp"} /\ c \in Digits -> "exp"
    [] q = "exp" /\ c = "_"         -> "exp_"
    [] q = "exp_" /\ c \in Digits   -> "exp"
    [] OTHER -> "reject"

RECURSIVE FloatRun(_, _)
FloatRun(q, s) == IF s = <<>> THEN q ELSE FloatRun(FloatStep(q, Head(s)), Tail(s))

ParsesAsFloat(s) ==
  LET t == Strip(s)
      u == IF t # <<>> /\ Head(t) \in Signs THEN Tail(t) ELSE t
  IN  \/ FloatRun("start", t) \in {"int", "intdot", "frac", "exp"}
      \/ Lower(u) \in FloatWords

\* is_numeric(value)
is_numeric(value) ==
  IF value = None THEN FALSE
  ELSE IF Strip(value) = <<>> THEN FALSE
  ELSE ParsesAsFloat(Strip(value))

-----------------------------------------------------------------------------
(* Column inference *)

S_Name == <<"N","a","m","e">>
S_name == <<"n","a","m","e">>
S_Points == <<"P","o","i","n","t","s">>

Ok(v) == [ok |-> TRUE, value |-> v, exc |-> "", what |-> ""]
Raise(exc, what) == [ok |-> FALSE, value |-> None, exc |-> exc, what |-> what]

\* next((name for name in fieldnames if "name" in name.lower()), None)
RECURSIVE FirstNameLike(_)
FirstNameLike(fieldnames) ==
  IF fieldnames = <<>> THEN None
  ELSE IF Contains(Lower(Head(fieldnames)), S_name) THEN Head(fieldnames)
  ELSE FirstNameLike(Tail(fieldnames))

\* faulty variant: the exact header Name is not preferred
find_name_column_first_like(fieldnames, file_label) ==
  LET name_like == FirstNameLike(fieldnames)
  IN  IF Truthy(name_like) THEN Ok(name_like)
      ELSE Raise("ValueError: no name column", file_label)

find_name_column(fieldnames, file_label) ==
  LET exact_match == FirstEqual(fieldnames, S_Name)
      name_like == FirstNameLike(fieldnames)
  IN  IF Truthy(exact_match) THEN Ok(exact_match)
      ELSE IF Truthy(name_like) THEN Ok(name_like)
      ELSE Raise("ValueError: no name column", file_label)

\* faulty variant: a column without a non-blank cell passes
ColumnIsNumeric_allows_blank(column_name, rows) ==
  \A k \in DOMAIN rows :
    LET v == Get(rows[k], column_name, <<>>)
    IN  (v # None /\ Strip(v) # <<>>) => is_numeric(v)

\* the test of lines 49-51 on one column
ColumnIsNumeric(column_name, rows) ==
  LET values == [k \in DOMAIN rows |-> Get(rows[k], column_name, <<>>)]
      non_blank == { k \in DOMAIN values :
                       values[k] # None /\ Strip(values[k]) # <<>> }
  IN  non_blank # {} /\ \A k \in non_blank : is_numeric(values[k])

\* the for loop of lines 48-52
RECURSIVE FirstNumericColumn(_, _)
FirstNumericColumn(fieldnames, rows) ==
  IF fieldnames = <<>> THEN Raise("ValueError: no points column", "AllValues.csv")
  ELSE IF ColumnIsNumeric(Head(fieldnames), rows) THEN Ok(Head(fieldnames))
  ELSE FirstNumericColumn(Tail(fieldnames), rows)

\* faulty variant: the exact header Points is not preferred
find_points_column_no_exact(fieldnames, rows) ==
  FirstNumericColumn(fieldnames, rows)

find_points_column(fieldnames, rows) ==
  LET exact_match == FirstEqual(fieldnames, S_Points)
  IN  IF Truthy(exact_match) THEN Ok(exact_match)
      ELSE FirstNumericColumn(fieldnames, rows)

-----------------------------------------------------------------------------
(* load_csv.  A file is [decodable, header, rows]: the encodings that decode *)
(* its bytes, the cells of its first line (<<>> for an empty file or a blank *)
(* first line) and the cells of each later line (<<>> for a blank line).     *)

Encodings == <<"utf-8-sig", "cp1252", "latin-1">>

\* an insertion-ordered dict is a sequence of <<key, value>> with distinct keys
DictSet(d, k, v) ==
  IF \E j \in DOMAIN d : d[j][1] = k
    THEN [j \in DOMAIN d |-> IF d[j][1] = k THEN <<k, v>> ELSE d[j]]
    ELSE Append(d, <<k, v>>)

Min(a, b) == IF a < b THEN a ELSE b

\* dict(zip(fieldnames, row)), pairs j..n
RECURSIVE ZipDict(_, _, _, _, _)
ZipDict(d, fieldnames, cells, j, n) ==
  IF j > n THEN d
  ELSE ZipDict(DictSet(d, fieldnames[j], cells[j]), fieldnames, cells, j + 1, n)

\* for key in fieldnames[lr:]: d[key] = restval
RECURSIVE RestDict(_, _, _)
RestDict(d, fieldnames, j) ==
  IF j > Len(fieldnames) THEN d
  ELSE RestDict(DictSet(d, fieldnames[j], None), fieldnames, j + 1)

\* csv.DictReader.__next__ on one non-blank line (restkey = restval = None)
DictReaderRow(fieldnames, cells) ==
  LET lf == Len(fieldnames)
      lr == Len(cells)
      d  == ZipDict(<<>>, fieldnames, cells, 1, Min(lf, lr))
  IN  IF lf < lr THEN DictSet(d, None, SubSeq(cells, lf + 1, lr))
      ELSE IF lf > lr THEN RestDict(d, fieldnames, lr + 1)
      ELSE d

DictPut(f, k, v) == [x \in (DOMAIN f) \cup {k} |-> IF x = k THEN v ELSE f[x]]

\* lines 69-73: the cleaned mapping of one row, items j.. of the reader's dict
RECURSIVE CleanRow(_, _, _)
CleanRow(cleaned, items, j) ==
  IF j > Len(items) THEN cleaned
  ELSE IF items[j][1] = None THEN CleanRow(cleaned, items, j + 1)
  ELSE CleanRow(DictPut(cleaned, Strip(items[j][1]),
                        IF IsStr(items[j][2]) THEN Strip(items[j][2])
                                              ELSE items[j][2]),
                items, j + 1)

\* lines 67-74: DictReader skips blank lines
RECURSIVE ReadRows(_, _)
ReadRows(fieldnames, lines) ==
  IF lines = <<>> THEN <<>>
  ELSE IF Head(lines) = <<>> THEN ReadRows(fieldnames, Tail(lines))
  ELSE <<CleanRow(<<>>, DictReaderRow(fieldnames, Head(lines)), 1)>>
         \o ReadRows(fieldnames, Tail(lines))

\* lines 63-75 under an encoding that decodes the file
ReadTable(file, path) ==
  IF file.header = <<>> THEN Raise("ValueError: no header row", path)
  ELSE Ok([fieldnames |-> [k \in DOMAIN file.header |-> Strip(file.header[k])],
           rows |-> ReadRows(file.header, file.rows)])

RECURSIVE TryEncodings(_, _, _)
TryEncodings(file, path, k) ==
  IF k > Len(Encodings) THEN Raise("UnicodeDecodeError", path)
  ELSE IF Encodings[k] \in file.decodable THEN ReadTable(file, path)
  ELSE TryEncodings(file, path, k + 1)

load_csv(file, path) == TryEncodings(file, path, 1)

-----------------------------------------------------------------------------
(* The files main() may find on disk *)

MaxAllRows == 2
MaxAvailRows == 2

S_A == <<"A">>
S_5 == <<"5">>
S_V == <<"V">>
S_name_sp == <<"n","a","m","e"," ">>

ALL_VALUES_PATH == "AllValues.csv"
AVAILABLE_PATH == "Available.csv"
OUTPUT_PATH == "AvailableWithPoints.csv"

DUPLICATE_PREFIX == "Duplicate names in AllValues.csv (using first occurrence)"
MISSING_PREFIX == "Names from Available.csv not found in AllValues.csv"
WROTE_PREFIX == "Wrote AvailableWithPoints.csv"

SeqsUpTo(S, n) == UNION { [1..k -> S] : k \in 0..n }

\* latin-1 decodes every byte string
DecodableSets == { {"utf-8-sig", "cp1252", "latin-1"}, {"cp1252", "latin-1"},
                   {"latin-1"} }

DataCells == {S_A, S_5, <<>>}

AllHeaders == { <<>>, <<S_Name>>, <<S_V>>, <<S_Name, S_Points>>,
                <<S_V, S_name_sp>> }
AvailHeaders == { <<>>, <<S_Name>>, <<S_V>> }

\* lines of no, one or two cells
Lines1 == { <<>> } \cup { <<a>> : a \in DataCells }
Lines2 == Lines1 \cup { <<a, b>> : a \in DataCells, b \in DataCells }

AllFiles ==
  { [decodable |-> d, header |-> h, rows |-> r] :
      d \in DecodableSets, h \in AllHeaders,
      r \in SeqsUpTo(Lines2, MaxAllRows) }

AvailFiles ==
  { [decodable |-> d, header |-> h, rows |-> r] :
      d \in DecodableSets, h \in AvailHeaders,
      r \in SeqsUpTo(Lines1, MaxAvailRows) }

-----------------------------------------------------------------------------
(* main() *)

\* faulty variant: a repeated key overwrites the mapped value
IndexStep_overwrite(index, dups, row, name_column, pts_column) ==
  LET name == Get(row, name_column, <<>>)
  IN  [index |-> DictPut(index, name, Get(row, pts_column, <<>>)),
       dups |-> IF name \in DOMAIN index THEN Append(dups, name) ELSE dups]

\* lines 106-110: one pass of the index loop
IndexStep(index, dups, row, name_column, pts_column) ==
  LET name == Get(row, name_column, <<>>)
  IN  IF name \in DOMAIN index
        THEN [index |-> index, dups |-> Append(dups, name)]
        ELSE [index |-> DictPut(index, name, Get(row, pts_column, <<>>)),
              dups |-> dups]

\* faulty variant: an unmatched row produces no output row
JoinStep_drop_unmatched(missing, out, row, name_column, index) ==
  LET name == Get(row, name_column, <<>>)
  IN  IF name \in DOMAIN index
        THEN [missing |-> missing,
              out |-> Append(out, [Name |-> name, Points |-> index[name]])]
        ELSE [missing |-> Append(missing, name), out |-> out]

\* lines 116-120: one pass of the join loop
JoinStep(missing, out, row, name_column, index) ==
  LET name == Get(row, name_column, <<>>)
      points == Get(index, name, <<>>)
  IN  [missing |-> IF points = <<>> THEN Append(missing, name) ELSE missing,
       out |-> Append(out, [Name |-> name, Points |-> points])]

\* lines 115-120
RECURSIVE JoinLoop(_, _, _, _, _)
JoinLoop(missing, out, rows, name_column, index) ==
  IF rows = <<>> THEN [missing |-> missing, out |-> out]
  ELSE LET r == JoinStep(missing, out, Head(rows), name_column, index)
       IN  JoinLoop(r.missing, r.out, Tail(rows), name_column, index)

\* faulty variant: the diagnostics are not deduplicated
FromKeys_keep_all(seen, names) == seen \o names

\* list(dict.fromkeys(names))
RECURSIVE FromKeys(_, _)
FromKeys(seen, names) ==
  IF names = <<>> THEN seen
  ELSE IF \E k \in DOMAIN seen : seen[k] = Head(names)
         THEN FromKeys(seen, Tail(names))
         ELSE FromKeys(Append(seen, Head(names)), Tail(names))

\* csv.DictWriter writes None as the empty field
Field(v) == IF v = None THEN <<>> ELSE v

Event(ev, kind, data, n) == [ev |-> ev, kind |-> kind, data |-> data, n |-> n]

\* lines 122-125
WriteOutput(rows) ==
  << Event("open", OUTPUT_PATH, <<>>, 0),
     Event("writeheader", OUTPUT_PATH, <<S_Name, S_Points>>, 0),
     Event("writerows", OUTPUT_PATH,
           [k \in DOMAIN rows |-> <<Field(rows[k].Name), Field(rows[k].Points)>>],
           Len(rows)),
     Event("close", OUTPUT_PATH, <<>>, 0) >>

\* faulty variant: the warning is printed for an empty list too
warn_list_always(prefix, items) ==
  IF \E k \in DOMAIN items : ~IsStr(items[k])
    THEN Raise("TypeError", prefix)
    ELSE Ok(<<Event("print", prefix, items, Len(items))>>)

\* warn_list: ', '.join(items) raises TypeError on an item that is no str
warn_list(prefix, items) ==
  IF items = <<>> THEN Ok(<<>>)
  ELSE IF \E k \in DOMAIN items : ~IsStr(items[k])
         THEN Raise("TypeError", prefix)
         ELSE Ok(<<Event("print", prefix, items, Len(items))>>)

Fail(r) ==
  /\ pc' = "error"
  /\ error' = <<r.exc, r.what>>

Init ==
  /\ pc = "load_all"
  /\ all_fields = <<>> /\ all_rows = <<>>
  /\ available_fields = <<>> /\ available_rows = <<>>
  /\ all_name_column = None /\ available_name_column = None
  /\ points_column = None
  /\ points_by_name = <<>> /\ duplicate_names = <<>>
  /\ missing_names = <<>> /\ output_rows = <<>>
  /\ unique_duplicates = <<>> /\ unique_missing = <<>>
  /\ idx = 0
  /\ io = <<>>
  /\ error = <<>>
  /\ arg = <<>> /\ ret = <<>>

\* line 95
LoadAllValues ==
  /\ pc = "load_all"
  /\ \E f \in AllFiles :
       LET r == load_csv(f, ALL_VALUES_PATH)
       IN  IF r.ok
             THEN /\ all_fields' = r.value.fieldnames
                  /\ all_rows' = r.value.rows
                  /\ pc' = "load_available"
                  /\ UNCHANGED error
             ELSE /\ Fail(r)
                  /\ UNCHANGED <<all_fields, all_rows>>
  /\ UNCHANGED <<available_fields, available_rows, all_name_column,
                 available_name_column, points_column, points_by_name,
                 duplicate_names, missing_names, output_rows,
                 unique_duplicates, unique_missing, idx, io, arg, ret>>

\* line 96
LoadAvailable ==
  /\ pc = "load_available"
  /\ \E f \in AvailFiles :
       LET r == load_csv(f, AVAILABLE_PATH)
       IN  IF r.ok
             THEN /\ available_fields' = r.value.fieldnames
                  /\ available_rows' = r.value.rows
                  /\ pc' = "infer_all_name"
                  /\ UNCHANGED error
             ELSE /\ Fail(r)
                  /\ UNCHANGED <<available_fields, available_rows>>
  /\ UNCHANGED <<all_fields, all_rows, all_name_column,
                 available_name_column, points_column, points_by_name,
                 duplicate_names, missing_names, output_rows,
                 unique_duplicates, unique_missing, idx, io, arg, ret>>

\* line 98
InferAllName ==
  /\ pc = "infer_all_name"
  /\ LET r == find_name_column(all_fields, ALL_VALUES_PATH)
     IN  IF r.ok
           THEN /\ all_name_column' = r.value
                /\ pc' = "infer_available_name"
                /\ UNCHANGED error
           ELSE /\ Fail(r)
                /\ UNCHANGED all_name_column
  /\ UNCHANGED <<all_fields, all_rows, available_fields, available_rows,
                 available_name_column, points_column, points_by_name,
                 duplicate_names, missing_names, output_rows,
                 unique_duplicates, unique_missing, idx, io, arg, ret>>

\* line 99
InferAvailableName ==
  /\ pc = "infer_available_name"
  /\ LET r == find_name_column(available_fields, AVAILABLE_PATH)
     IN  IF r.ok
           THEN /\ available_name_column' = r.value
                /\ pc' = "infer_points"
                /\ UNCHANGED error
           ELSE /\ Fail(r)
                /\ UNCHANGED available_name_column
  /\ UNCHANGED <<all_fields, all_rows, available_fields, available_rows,
                 all_name_column, points_column, points_by_name,
                 duplicate_names, missing_names, output_rows,
                 unique_duplicates, unique_missing, idx, io, arg, ret>>

\* faulty variant: the output file is opened before the points column is inferred
InferPoints_opens_first ==
  /\ pc = "infer_points"
  /\ io' = Append(io, Event("open", OUTPUT_PATH, <<>>, 0))
  /\ LET r == find_points_column(all_fields, all_rows)
     IN  IF r.ok
           THEN /\ points_column' = r.value
                /\ pc' = "index"
                /\ UNCHANGED error
           ELSE /\ Fail(r)
                /\ UNCHANGED points_column
  /\ UNCHANGED <<all_fields, all_rows, available_fields, available_rows,
                 all_name_column, available_name_column, points_by_name,
                 duplicate_names, missing_names, output_rows,
                 unique_duplicates, unique_missing, idx, arg, ret>>

\* line 100
InferPoints ==
  /\ pc = "infer_points"
  /\ LET r == find_points_column(all_fields, all_rows)
     IN  IF r.ok
           THEN /\ points_column' = r.value
                /\ pc' = "index"
                /\ UNCHANGED error
           ELSE /\ Fail(r)
                /\ UNCHANGED points_column
  /\ UNCHANGED <<all_fields, all_rows, available_fields, available_rows,
                 all_name_column, available_name_column, points_by_name,
                 duplicate_names, missing_names, output_rows,
                 unique_duplicates, unique_missing, idx, io, arg, ret>>

\* lines 105-110, one row
IndexRow ==
  /\ pc = "index"
  /\ idx < Len(all_rows)
  /\ LET r == IndexStep(points_by_name, duplicate_names, all_rows[idx + 1],
                        all_name_column, points_column)
     IN  /\ points_by_name' = r.index
         /\ duplicate_names' = r.dups
  /\ idx' = idx + 1
  /\ UNCHANGED <<pc, all_fields, all_rows, available_fields, available_rows,
                 all_name_column, available_name_column, points_column,
                 missing_names, output_rows, unique_duplicates,
                 unique_missing, io, error, arg, ret>>

\* lines 112-120
Join ==
  /\ pc = "index"
  /\ idx = Len(all_rows)
  /\ LET r == JoinLoop(<<>>, <<>>, available_rows, available_name_column,
                       points_by_name)
     IN  /\ missing_names' = r.missing
         /\ output_rows' = r.out
  /\ pc' = "write"
  /\ UNCHANGED <<all_fields, all_rows, available_fields, available_rows,
                 all_name_column, available_name_column, points_column,
                 points_by_name, duplicate_names, unique_duplicates,
                 unique_missing, idx, io, error, arg, ret>>

\* lines 122-125
Write ==
  /\ pc = "write"
  /\ io' = io \o WriteOutput(output_rows)
  /\ pc' = "warn_duplicates"
  /\ UNCHANGED <<all_fields, all_rows, available_fields, available_rows,
                 all_name_column, available_name_column, points_column,
                 points_by_name, duplicate_names, missing_names, output_rows,
                 unique_duplicates, unique_missing, idx, error, arg, ret>>

\* lines 128-131
WarnDuplicates ==
  /\ pc = "warn_duplicates"
  /\ unique_duplicates' = FromKeys(<<>>, duplicate_names)
  /\ unique_missing' = FromKeys(<<>>, missing_names)
  /\ LET r == warn_list(DUPLICATE_PREFIX, unique_duplicates')
     IN  IF r.ok
           THEN /\ io' = io \o r.value
                /\ pc' = "warn_missing"
                /\ UNCHANGED error
           ELSE /\ Fail(r)
                /\ UNCHANGED io
  /\ UNCHANGED <<all_fields, all_rows, available_fields, available_rows,
                 all_name_column, available_name_column, points_column,
                 points_by_name, duplicate_names, missing_names, output_rows,
                 idx, arg, ret>>

\* line 132
WarnMissing ==
  /\ pc = "warn_missing"
  /\ LET r == warn_list(MISSING_PREFIX, unique_missing)
     IN  IF r.ok
           THEN /\ io' = io \o r.value
                /\ pc' = "print_wrote"
                /\ UNCHANGED error
           ELSE /\ Fail(r)
                /\ UNCHANGED io
  /\ UNCHANGED <<all_fields, all_rows, available_fields, available_rows,
                 all_name_column, available_name_column, points_column,
                 points_by_name, duplicate_names, missing_names, output_rows,
                 unique_duplicates, unique_missing, idx, arg, ret>>

\* line 134
PrintWrote ==
  /\ pc = "print_wrote"
  /\ io' = Append(io, Event("print", WROTE_PREFIX, <<>>, Len(output_rows)))
  /\ pc' = "done"
  /\ UNCHANGED <<all_fields, all_rows, available_fields, available_rows,
                 all_name_column, available_name_column, points_column,
                 points_by_name, duplicate_names, missing_names, output_rows,
                 unique_duplicates, unique_missing, idx, error, arg, ret>>

Next ==
  \/ LoadAllValues
  \/ LoadAvailable
  \/ InferAllName
  \/ InferAvailableName
  \/ InferPoints
  \/ IndexRow
  \/ Join
  \/ Write
  \/ WarnDuplicates
  \/ WarnMissing
  \/ PrintWrote

Spec == Init /\ [][Next]_vars

-----------------------------------------------------------------------------
(* The index loop on tables of up to MaxIndexRows rows: main() from line 102 *)
(* on, after AllValues.csv with header Name,Points and Available.csv with    *)
(* header Name were loaded and their columns inferred.                       *)

MaxIndexRows == 5

S_B == <<"B">>
S_9 == <<"9">>

IndexTableRows ==
  { [c \in {S_Name, S_Points} |-> IF c = S_Name THEN n ELSE p] :
      n \in {S_A, S_B}, p \in {S_5, S_9} }

InitIndex ==
  /\ pc = "index"
  /\ all_fields = <<S_Name, S_Points>>
  /\ all_rows \in SeqsUpTo(IndexTableRows, MaxIndexRows)
  /\ available_fields = <<S_Name>>
  /\ available_rows \in { <<>>, <<[c \in {S_Name} |-> S_A]>> }
  /\ all_name_column = S_Name /\ available_name_column = S_Name
  /\ points_column = S_Points
  /\ points_by_name = <<>> /\ duplicate_names = <<>>
  /\ missing_names = <<>> /\ output_rows = <<>>
  /\ unique_duplicates = <<>> /\ unique_missing = <<>>
  /\ idx = 0
  /\ io = <<>>
  /\ error = <<>>
  /\ arg = <<>> /\ ret = <<>>

NextIndex ==
  \/ IndexRow
  \/ Join
  \/ Write
  \/ WarnDuplicates
  \/ WarnMissing
  \/ PrintWrote

SpecIndex == InitIndex /\ [][NextIndex]_vars

-----------------------------------------------------------------------------
(* Properties of main() *)

NameAt(k) == Get(all_rows[k], all_name_column, <<>>)
PointsAt(k) == Get(all_rows[k], points_column, <<>>)
RowsNamed(n) == { k \in DOMAIN all_rows : NameAt(k) = n }
KeyAt(i) == Get(available_rows[i], available_name_column, <<>>)
MinOf(S) == CHOOSE x \in S : \A y \in S : x <= y
SecondOf(S) == MinOf(S \ {MinOf(S)})

AtOrPastWrite ==
  \/ pc \in {"write", "warn_duplicates", "warn_missing", "print_wrote", "done"}
  \/ pc = "error" /\ io # <<>>

\* C1: every output row's Points is the points value of the first value-source
\* row (in file order) whose name equals the output row's Name, and the empty
\* string if no value-source row has that name.
C1_LeftJoin ==
  \A i \in DOMAIN output_rows :
    LET n == output_rows[i].Name
    IN  IF RowsNamed(n) = {}
          THEN output_rows[i].Points = <<>>
          ELSE output_rows[i].Points = PointsAt(MinOf(RowsNamed(n)))

\* a finished run with a name repeated in the value source under different
\* points, and an available name that the value source lacks
C1_Witness ==
  /\ pc = "done"
  /\ \E i \in DOMAIN output_rows :
       \E k \in RowsNamed(output_rows[i].Name) :
         PointsAt(k) # output_rows[i].Points
  /\ \E j \in DOMAIN output_rows : RowsNamed(output_rows[j].Name) = {}

\* C2: a name is recorded as missing if and only if it is the key of some
\* available-items row and no value-source row has that name.
C2_MissingExact ==
  AtOrPastWrite =>
    \A n \in { KeyAt(i) : i \in DOMAIN available_rows }
             \cup { missing_names[k] : k \in DOMAIN missing_names } :
      (\E k \in DOMAIN missing_names : missing_names[k] = n)
        <=> /\ \E i \in DOMAIN available_rows : KeyAt(i) = n
            /\ RowsNamed(n) = {}

\* C3: once main() reaches the write step there are as many output rows as
\* available-items rows, the i-th output row carries the key of the i-th
\* available-items row, and that many rows are written to the file.
C3_Totality ==
  AtOrPastWrite =>
    /\ Len(output_rows) = Len(available_rows)
    /\ \A i \in DOMAIN available_rows : output_rows[i].Name = KeyAt(i)
    /\ \A k \in DOMAIN io :
         io[k].ev = "writerows" =>
           /\ io[k].n = Len(available_rows)
           /\ \A i \in DOMAIN available_rows :
                io[k].data[i][1] = Field(KeyAt(i))

\* the write step with a key repeated in the available items and unmatched
C3_Witness ==
  /\ pc = "write"
  /\ Len(available_rows) = 2
  /\ KeyAt(1) = KeyAt(2)
  /\ RowsNamed(KeyAt(1)) = {}
  /\ Len(output_rows) = 2

LoadOrInferenceErrors ==
  { "UnicodeDecodeError", "ValueError: no header row",
    "ValueError: no name column", "ValueError: no points column" }

\* C5: a run that a load or an inference ends has performed no I/O (no output
\* file opened or written, nothing printed), and the output file is touched
\* only after both loads and all three inferences succeeded.
C5_AbortBeforeOutput ==
  /\ (pc = "error" /\ error[1] \in LoadOrInferenceErrors) => io = <<>>
  /\ io # <<>> =>
       /\ all_fields # <<>> /\ available_fields # <<>>
       /\ all_name_column # None /\ available_name_column # None
       /\ points_column # None

\* a run that the points-column inference ended, both names found
C5_Witness ==
  /\ pc = "error"
  /\ error[1] = "ValueError: no points column"
  /\ all_name_column # None /\ available_name_column # None
  /\ io = <<>>

Rank(prefix) ==
  CASE prefix = DUPLICATE_PREFIX -> 1
    [] prefix = MISSING_PREFIX -> 2
    [] prefix = WROTE_PREFIX -> 3

Printed(prefix) == \E k \in DOMAIN io : io[k].ev = "print" /\ io[k].kind = prefix

\* C8: every print comes after the output file was opened, fully written and
\* closed, and no file event follows a print; prints appear in the order
\* duplicate warning, missing warning, completion line, each at most once; a
\* finished run printed a warning exactly when its list is non-empty, and
\* ended with the completion line carrying the number of output rows.
C8_ReportOrder ==
  /\ \A k \in DOMAIN io :
       io[k].ev = "print" =>
         /\ k > 4
         /\ io[1].ev = "open" /\ io[2].ev = "writeheader"
         /\ io[3].ev = "writerows" /\ io[3].n = Len(output_rows)
         /\ io[4].ev = "close"
         /\ \A j \in k..Len(io) : io[j].ev = "print"
  /\ \A j, k \in DOMAIN io :
       (j < k /\ io[j].ev = "print" /\ io[k].ev = "print")
         => Rank(io[j].kind) < Rank(io[k].kind)
  /\ pc = "done" =>
       /\ Printed(DUPLICATE_PREFIX) <=> duplicate_names # <<>>
       /\ Printed(MISSING_PREFIX) <=> missing_names # <<>>
       /\ io[Len(io)].ev = "print" /\ io[Len(io)].kind = WROTE_PREFIX
       /\ io[Len(io)].n = Len(output_rows)

\* a finished run that printed both warnings
C8_Witness ==
  /\ pc = "done"
  /\ Len(io) = 7
  /\ io[5].kind = DUPLICATE_PREFIX /\ io[6].kind = MISSING_PREFIX

\* the column named h has a non-blank cell and only numeric non-blank cells
QualifiesAsPoints(h) ==
  LET cells == { Get(all_rows[k], h, <<>>) : k \in DOMAIN all_rows }
                 \ { None, <<>> }
  IN  cells # {} /\ \A v \in cells : is_numeric(v)

FirstPos(h) == MinOf({ k \in DOMAIN all_fields : all_fields[k] = h })

\* C10 as stated: the points column is never the name column.
C10_Original ==
  points_column # None => points_column # all_name_column

\* C10 amended: the points column is the name column exactly when no header
\* equals Points and the name column is the first header whose column has a
\* non-blank cell and only numeric non-blank cells; then the index maps every
\* name to itself.
C10_DistinctUnlessNumericNames ==
  points_column # None =>
    /\ points_column = all_name_column
         <=> /\ \A k \in DOMAIN all_fields : all_fields[k] # S_Points
             /\ QualifiesAsPoints(all_name_column)
             /\ \A k \in 1..(FirstPos(all_name_column) - 1) :
                  ~QualifiesAsPoints(all_fields[k])
    /\ points_column = all_name_column =>
         \A n \in DOMAIN points_by_name : points_by_name[n] = n

\* a finished run whose index maps a name to itself
C10_Witness ==
  /\ pc = "done"
  /\ points_column = all_name_column
  /\ \E n \in DOMAIN points_by_name : points_by_name[n] = n

\* C4: at every point of the index loop each key of the index maps to the
\* points of the first value-source row with that name, a row already
\* consumed, so a later row never overwrites it; the reported duplicate list
\* holds exactly the names of more than one value-source row, each once,
\* ordered by the position of their first repeat.
C4_FirstWinsAndDuplicates ==
  /\ \A n \in DOMAIN points_by_name :
       /\ RowsNamed(n) # {}
       /\ MinOf(RowsNamed(n)) <= idx
       /\ points_by_name[n] = PointsAt(MinOf(RowsNamed(n)))
  /\ pc \in {"warn_missing", "print_wrote", "done"} =>
       /\ { unique_duplicates[k] : k \in DOMAIN unique_duplicates }
            = { NameAt(k) : k \in { j \in DOMAIN all_rows :
                                      Cardinality(RowsNamed(NameAt(j))) > 1 } }
       /\ \A a, b \in DOMAIN unique_duplicates :
            a < b => SecondOf(RowsNamed(unique_duplicates[a]))
                       < SecondOf(RowsNamed(unique_duplicates[b]))
       /\ unique_duplicates # <<>> =>
            \E k \in DOMAIN io : /\ io[k].ev = "print"
                                 /\ io[k].kind = DUPLICATE_PREFIX
                                 /\ io[k].data = unique_duplicates

\* a finished run over rows such as A, B, B, B, A: B repeats first and twice, and the second A
\* carries other points than the first
C4_Witness ==
  /\ pc = "done"
  /\ unique_duplicates = <<S_B, S_A>>
  /\ \E k \in RowsNamed(S_A) : PointsAt(k) # points_by_name[S_A]
  /\ Cardinality(RowsNamed(S_B)) > 2

-----------------------------------------------------------------------------
(* find_name_column called on its own *)

MaxNameFields == 3

S_NAME == <<"N","A","M","E">>
S_aNamE == <<"a","N","a","m","E">>
S_ID == <<"I","D">>
S_Nam == <<"N","a","m">>

NameHeaderCells == {S_Name, S_NAME, S_aNamE, S_ID, S_Nam}

Idle ==
  /\ all_fields = <<>> /\ all_rows = <<>>
  /\ available_fields = <<>> /\ available_rows = <<>>
  /\ all_name_column = None /\ available_name_column = None
  /\ points_column = None
  /\ points_by_name = <<>> /\ duplicate_names = <<>>
  /\ missing_names = <<>> /\ output_rows = <<>>
  /\ unique_duplicates = <<>> /\ unique_missing = <<>>
  /\ idx = 0
  /\ io = <<>>
  /\ error = <<>>

InitName ==
  /\ pc = "find_name_column"
  /\ arg \in [fieldnames : SeqsUpTo(NameHeaderCells, MaxNameFields),
              file_label : {ALL_VALUES_PATH, AVAILABLE_PATH}]
  /\ ret = <<>>
  /\ Idle

CallFindName ==
  /\ pc = "find_name_column"
  /\ ret' = find_name_column(arg.fieldnames, arg.file_label)
  /\ pc' = "find_name_column returned"
  /\ UNCHANGED <<mainVars, arg>>

SpecName == InitName /\ [][CallFindName]_vars

\* the lower-cased text of h contains "name"
NameLike(h) ==
  \E k \in 1..(Len(h) - 3) : \A m \in 1..4 : LowerChar(h[k + m - 1]) = S_name[m]

\* C7: find_name_column returns Name when a header equals Name, whatever
\* precedes it; otherwise the first header whose lower-cased text contains
\* "name"; otherwise it raises an error naming the file; a returned header is
\* one of the list.
C7_NameColumn ==
  pc = "find_name_column returned" =>
    LET f == arg.fieldnames
        exact == { i \in DOMAIN f : f[i] = S_Name }
        like == { i \in DOMAIN f : NameLike(f[i]) }
    IN  /\ exact # {} => ret.ok /\ ret.value = S_Name
        /\ (exact = {} /\ like # {}) => ret.ok /\ ret.value = f[MinOf(like)]
        /\ (exact = {} /\ like = {}) =>
             /\ ~ret.ok
             /\ ret.exc = "ValueError: no name column"
             /\ ret.what = arg.file_label
        /\ ret.ok => \E i \in DOMAIN f : f[i] = ret.value

\* Name returned although a header containing "name" in another case precedes it
C7_Witness ==
  /\ pc = "find_name_column returned"
  /\ Len(arg.fieldnames) >= 2
  /\ arg.fieldnames[1] # S_Name /\ NameLike(arg.fieldnames[1])
  /\ \E i \in DOMAIN arg.fieldnames : arg.fieldnames[i] = S_Name
  /\ ret.ok /\ ret.value = S_Name

-----------------------------------------------------------------------------
(* find_points_column called on its own, on rows as load_csv builds them *)

MaxPointsRows == 2

S_W == <<"W">>
S_float == <<"-",".","5","e","1">>
S_inf == <<"i","n","f">>

PointsHeaderCells == {S_Points, S_V, S_W}
PointsCells == {S_5, S_float, S_inf, S_A, <<>>, None}

PointsFieldLists ==
  { <<>> } \cup { <<a>> : a \in PointsHeaderCells }
           \cup { <<a, b>> : a \in PointsHeaderCells, b \in PointsHeaderCells }

InitPoints ==
  /\ pc = "find_points_column"
  /\ \E f \in PointsFieldLists :
       \E r \in SeqsUpTo([{ f[k] : k \in DOMAIN f } -> PointsCells], MaxPointsRows) :
         arg = [fieldnames |-> f, rows |-> r]
  /\ ret = <<>>
  /\ Idle

CallFindPoints ==
  /\ pc = "find_points_column"
  /\ ret' = find_points_column(arg.fieldnames, arg.rows)
  /\ pc' = "find_points_column returned"
  /\ UNCHANGED <<mainVars, arg>>

SpecPoints == InitPoints /\ [][CallFindPoints]_vars

Blank(v) == v = None \/ \A k \in DOMAIN v : v[k] \in Whitespace

\* column h of the argument rows has a non-blank cell, and every non-blank
\* cell parses as a number
ArgColumnQualifies(h) ==
  LET cells == { k \in DOMAIN arg.rows : ~Blank(arg.rows[k][h]) }
  IN  cells # {} /\ \A k \in cells : ParsesAsFloat(arg.rows[k][h])

\* C6: find_points_column returns Points when a header equals Points,
\* whatever the cells are; otherwise the first header in header order whose
\* column has a non-blank cell and only numeric non-blank cells; otherwise it
\* raises an error.
C6_PointsColumn ==
  pc = "find_points_column returned" =>
    LET f == arg.fieldnames
        exact == { i \in DOMAIN f : f[i] = S_Points }
        qual == { i \in DOMAIN f : ArgColumnQualifies(f[i]) }
    IN  /\ exact # {} => ret.ok /\ ret.value = S_Points
        /\ (exact = {} /\ qual # {}) => ret.ok /\ ret.value = f[MinOf(qual)]
        /\ (exact = {} /\ qual = {}) =>
             ~ret.ok /\ ret.exc = "ValueError: no points column"

\* no header Points, the first column entirely blank, the second returned
C6_Witness ==
  /\ pc = "find_points_column returned"
  /\ Len(arg.fieldnames) = 2
  /\ arg.fieldnames[1] # arg.fieldnames[2]
  /\ Len(arg.rows) = 2
  /\ \A k \in DOMAIN arg.rows : Blank(arg.rows[k][arg.fieldnames[1]])
  /\ \E k \in DOMAIN arg.rows : Blank(arg.rows[k][arg.fieldnames[2]])
  /\ ret.ok /\ ret.value = arg.fieldnames[2] /\ ret.value # S_Points

-----------------------------------------------------------------------------
(* load_csv called on its own *)

MaxLoadRows == 2

S_sp_Name_sp == <<" ","N","a","m","e"," ">>
S_sp_5_sp == <<" ","5","\t">>

LoadHeaderCells == {S_Name, S_sp_Name_sp, S_V}
LoadCells == {S_A, S_sp_5_sp, <<>>}

LoadHeaders ==
  { <<>> } \cup { <<a>> : a \in LoadHeaderCells }
           \cup { <<a, b>> : a \in LoadHeaderCells, b \in LoadHeaderCells }

\* lines of up to three cells: shorter than, as long as, longer than a header
LoadLines ==
  { <<>> } \cup { <<a>> : a \in LoadCells }
           \cup { <<a, b>> : a \in LoadCells, b \in LoadCells }
           \cup { <<a, b, c>> : a \in LoadCells, b \in LoadCells, c \in LoadCells }

InitLoad ==
  /\ pc = "load_csv"
  /\ arg \in [decodable : DecodableSets, header : LoadHeaders,
              rows : SeqsUpTo(LoadLines, MaxLoadRows)]
  /\ ret = <<>>
  /\ Idle

CallLoad ==
  /\ pc = "load_csv"
  /\ ret' = load_csv(arg, ALL_VALUES_PATH)
  /\ pc' = "load_csv returned"
  /\ UNCHANGED <<mainVars, arg>>

SpecLoad == InitLoad /\ [][CallLoad]_vars

\* C9: every non-blank data line yields one row mapping whose keys are among
\* the trimmed header names and whose values are trimmed strings, with the
\* empty string for each header column the line is too short to reach.
C9_TableInvariant ==
  (pc = "load_csv returned" /\ ret.ok) =>
    LET hdr == { Strip(arg.header[k]) : k \in DOMAIN arg.header }
        lines == SelectSeq(arg.rows, LAMBDA l : l # <<>>)
        rows == ret.value.rows
    IN  /\ Len(rows) = Len(lines)
        /\ \A k \in DOMAIN rows :
             /\ DOMAIN rows[k] \subseteq hdr
             /\ \A key \in DOMAIN rows[k] :
                  IsStr(rows[k][key]) /\ Strip(rows[k][key]) = rows[k][key]
             /\ \A j \in (Len(lines[k]) + 1)..Len(arg.header) :
                  /\ Strip(arg.header[j]) \in DOMAIN rows[k]
                  /\ rows[k][Strip(arg.header[j])] = <<>>

====
